---------------------------- MODULE Spec2Model ----------------------------
(***************************************************************************)
(* Orthogonal edge routing of reactflow-auto-layout: the point geometry    *)
(* of src/layout/edge/point.ts (coordinate merging, duplicate removal,     *)
(* collinear reduction, endpoint correction, rectangle tests) and the drag *)
(* handler of the EdgeController component.                                *)
(*                                                                         *)
(* Coordinates are JavaScript numbers.  The model keeps them as integers   *)
(* counted in ticks of 1/Scale of a unit, so that a fractional coordinate  *)
(* (0.5 is one tick when Scale = 2) exists and Math.floor is a real        *)
(* conversion.  A whole number of units is a multiple of Scale.            *)
(***************************************************************************)
EXTENDS Integers, Sequences, FiniteSets

VARIABLES pc,        \* which operation has run in this behaviour
          params,    \* OptimizePointsParams given to optimizeInputPoints
          result,    \* what optimizeInputPoints returned for params
          result2,   \* what it returned when run again on result
          points,    \* a ControlPoint[] given to a list function
          outPoints, \* what the list function returned
          rect1,     \* NodeRect (isRectOverLapping's rect1, isSegmentCrossingRect's box)
          rect2,     \* NodeRect (isRectOverLapping's rect2)
          seg,       \* the segment p1-p2 given to isSegmentCrossingRect
          answer,    \* the boolean a rectangle test returned
          path,      \* the points of the edge, as the coordination layer holds them
          controllers,  \* what the last render gave each EdgeController to close over
          draggingEdge, \* SmartEdge.draggingEdge
          viewport,  \* pan and zoom of the flow (behind screenToFlowPosition)
          gesture,   \* the last pointer move useDraggable reported
          event,     \* the last event handed to the edge's onDragging
          drags      \* how many drag moves have been handled

vars == <<pc, params, result, result2, points, outPoints, rect1, rect2, seg,
          answer, path, controllers, draggingEdge, viewport, gesture, event, drags>>

optVars  == <<params, result, result2>>
listVars == <<points, outPoints>>
rectVars == <<rect1, rect2, seg, answer>>
dragVars == <<path, controllers, draggingEdge, viewport, gesture, event, drags>>

None == [none |-> TRUE]

---------------------------------------------------------------------------
(* Numbers *)

\* ticks per unit: the resolution of the modelled coordinates
Scale == 2

Abs(v) == IF v < 0 THEN -v ELSE v

\* Math.floor of a coordinate given in ticks
Floor(v) == (v \div Scale) * Scale

SetMin(S) == CHOOSE m \in S : \A o \in S : m <= o

Unit(k) == k * Scale

---------------------------------------------------------------------------
(* ControlPoint, HandlePosition *)

Pt(id, x, y) == [id |-> id, x |-> x, y |-> y]

Handle(id, x, y, position) == [id |-> id, x |-> x, y |-> y, position |-> position]

Positions == {"left", "top", "right", "bottom"}

isHorizontalFromPosition(position) == position \in {"left", "right"}

isEqualPoint(p1, p2) == p1.x = p2.x /\ p1.y = p2.y

\* getOffsetPoint: the point `offset` away from a handle, on the handle's side
getOffsetPoint(box, offset) ==
  CASE box.position = "top"    -> Pt(0, box.x, box.y - offset)
    [] box.position = "bottom" -> Pt(0, box.x, box.y + offset)
    [] box.position = "left"   -> Pt(0, box.x - offset, box.y)
    [] box.position = "right"  -> Pt(0, box.x + offset, box.y)

XY(p) == <<p.x, p.y>>

Coords(ps) == [i \in 1..Len(ps) |-> XY(ps[i])]

---------------------------------------------------------------------------
(* mergeClosePoints *)

threshold == 4

\* findPosition with `<=` for `<` in the comparison against the threshold
findPositionInclusive(ps, v0) ==
  LET v   == (v0 \div Scale) * Scale
      hit == {i \in 1..Len(ps) : Abs(v - ps[i]) <= 4 * Scale}
  IN  IF hit = {} THEN [p |-> v, ps |-> Append(ps, v)]
      ELSE [p |-> ps[SetMin(hit)], ps |-> ps]

\* findPosition with the push moved out of the `if`: every value is recorded
findPositionAlwaysPush(ps, v0) ==
  LET v   == (v0 \div Scale) * Scale
      hit == {i \in 1..Len(ps) : Abs(v - ps[i]) < 4 * Scale}
  IN  [p |-> IF hit = {} THEN v ELSE ps[SetMin(hit)], ps |-> Append(ps, v)]

\* findPosition: the first recorded position closer than the threshold to
\* floor(v), or floor(v) itself, which is then recorded
findPosition(ps, v0) ==
  LET v   == Floor(v0)
      hit == {i \in 1..Len(ps) : Abs(v - ps[i]) < threshold * Scale}
  IN  IF hit = {} THEN [p |-> v, ps |-> Append(ps, v)]
      ELSE [p |-> ps[SetMin(hit)], ps |-> ps]

RECURSIVE MergeFrom(_, _, _, _)
MergeFrom(pts, i, posX, posY) ==
  IF i > Len(pts) THEN <<>>
  ELSE LET fx == findPosition(posX, pts[i].x)
           fy == findPosition(posY, pts[i].y)
       IN  <<[pts[i] EXCEPT !.x = fx.p, !.y = fy.p]>>
             \o MergeFrom(pts, i + 1, fx.ps, fy.ps)

mergeClosePoints(pts) == MergeFrom(pts, 1, <<>>, <<>>)

---------------------------------------------------------------------------
(* removeRepeatPoints *)

\* the key `${p.x}-${p.y}`: one string per pair of numbers
PointKey(p) == <<p.x, p.y>>

RECURSIVE RemoveFrom(_, _, _)
RemoveFrom(pts, idx, uniquePoints) ==
  IF idx > Len(pts) THEN <<>>
  ELSE IF idx = Len(pts) THEN <<pts[idx]>>
  ELSE IF PointKey(pts[idx]) \notin uniquePoints
       THEN <<pts[idx]>> \o RemoveFrom(pts, idx + 1, uniquePoints \cup {PointKey(pts[idx])})
       ELSE RemoveFrom(pts, idx + 1, uniquePoints)

removeRepeatPoints(pts) == RemoveFrom(pts, 1, {PointKey(pts[Len(pts)])})

---------------------------------------------------------------------------
(* optimizeInputPoints *)

\* the correction with the two axes exchanged
CorrectEndpointSwapped(merged, anchor) ==
  IF anchor.position \in {"left", "right"}
  THEN [merged EXCEPT !.y = anchor.y]
  ELSE [merged EXCEPT !.x = anchor.x]

CorrectEndpoint(merged, anchor) ==
  IF isHorizontalFromPosition(anchor.position)
  THEN [merged EXCEPT !.x = anchor.x]
  ELSE [merged EXCEPT !.y = anchor.y]

Renumber(pts) == [idx \in 1..Len(pts) |-> [pts[idx] EXCEPT !.id = idx]]

optimizeInputPoints(p) ==
  LET all    == mergeClosePoints(<<p.source, p.sourceOffset>> \o p.edgePoints
                                   \o <<p.targetOffset, p.target>>)
      edge   == SubSeq(all, 2, Len(all) - 1)
  IN  [source       |-> CorrectEndpoint(all[1], p.source),
       target       |-> CorrectEndpoint(all[Len(all)], p.target),
       sourceOffset |-> edge[1],
       targetOffset |-> edge[Len(edge)],
       edgePoints   |-> Renumber(removeRepeatPoints(edge))]


---------------------------------------------------------------------------
(* reducePoints *)

\* isInLine: p lies on the horizontal or vertical segment p1-p2
isInLine(p, p1, p2) ==
  LET xPoints == IF p1.x < p2.x THEN <<p1.x, p2.x>> ELSE <<p2.x, p1.x>>
      yPoints == IF p1.y < p2.y THEN <<p1.y, p2.y>> ELSE <<p2.y, p1.y>>
  IN  \/ (p1.x = p.x /\ p.x = p2.x /\ p.y >= yPoints[1] /\ p.y <= yPoints[2])
      \/ (p1.y = p.y /\ p.y = p2.y /\ p.x >= xPoints[1] /\ p.x <= xPoints[2])

RECURSIVE ReduceFrom(_, _)
ReduceFrom(pts, i) ==
  IF i > Len(pts) - 1 THEN <<>>
  ELSE IF ~isInLine(pts[i], pts[i - 1], pts[i + 1])
       THEN <<pts[i]>> \o ReduceFrom(pts, i + 1)
       ELSE ReduceFrom(pts, i + 1)

\* the first point, the interior points not in line with their two neighbours
\* in the given list, the last point
reducePoints(pts) == <<pts[1]>> \o ReduceFrom(pts, 2) \o <<pts[Len(pts)]>>

---------------------------------------------------------------------------
(* NodeRect *)

Rect(x, y, width, height) == [x |-> x, y |-> y, width |-> width, height |-> height]

\* the comparison of the two x and the two y against half the summed extents
\* ((w1 + w2) / 2 is a real division: both sides are doubled here)
isRectOverLapping(r1, r2) ==
  /\ 2 * Abs(r1.x - r2.x) < r1.width + r2.width
  /\ 2 * Abs(r1.y - r2.y) < r1.height + r2.height

getRectSides(box) ==
  [top |-> box.y, right |-> box.x + box.width,
   bottom |-> box.y + box.height, left |-> box.x]

getRectVerticesFromSides(sides) ==
  << Pt(0, sides.left, sides.top), Pt(0, sides.right, sides.top),
     Pt(0, sides.right, sides.bottom), Pt(0, sides.left, sides.bottom) >>

getRectVertices(box) == getRectVerticesFromSides(getRectSides(box))

\* num / den lies in [0, 1], for den # 0
InUnitInterval(num, den) ==
  IF den > 0 THEN 0 <= num /\ num <= den ELSE den <= num /\ num <= 0

isSegmentsIntersected(p0, p1, p2, p3) ==
  LET s1x == p1.x - p0.x
      s1y == p1.y - p0.y
      s2x == p3.x - p2.x
      s2y == p3.y - p2.y
      denominator == (-s2x) * s1y + s1x * s2y
      sNum == s1y * (p2.x - p0.x) - s1x * (p2.y - p0.y)
      tNum == s2x * (p0.y - p2.y) - s2y * (p0.x - p2.x)
  IN  IF s1x * s2y - s1y * s2x = 0 THEN FALSE
      ELSE InUnitInterval(sNum, denominator) /\ InUnitInterval(tNum, denominator)

isSegmentCrossingRect(p1, p2, box) ==
  IF box.width = 0 /\ box.height = 0 THEN FALSE
  ELSE LET v == getRectVertices(box)
       IN  \/ isSegmentsIntersected(p1, p2, v[1], v[2])
           \/ isSegmentsIntersected(p1, p2, v[2], v[3])
           \/ isSegmentsIntersected(p1, p2, v[3], v[4])
           \/ isSegmentsIntersected(p1, p2, v[4], v[1])

---------------------------------------------------------------------------
(* EdgeController: the drag handle of one segment of the edge *)

\* screenToFlowPosition of the flow instance: the screen position, less the
\* pan, over the zoom
screenToFlowPosition(vp, position) ==
  [x |-> (position.x - vp.x) \div vp.zoom, y |-> (position.y - vp.y) \div vp.zoom]

\* SmartEdge.canDrag of the segment points[idx]-points[idx + 1]: not the first
\* nor the last segment, which touch the handles, and not of zero length
canDrag(pts, idx) ==
  /\ idx > 1 /\ idx < Len(pts) - 1
  /\ ~isEqualPoint(pts[idx], pts[idx + 1])

\* no drag id
Undefined == <<>>

\* EdgeControllers and EdgeController, rendered for the points pts: one
\* controller per segment that can be dragged, closing over the segment's start
\* and end as they are at this render, and over the drag id of
\* SmartEdge.draggingEdge when that edge starts where the segment starts
EdgeControllers(pts, dragging) ==
  [idx \in 1..(Len(pts) - 1) |->
     [start   |-> pts[idx],
      end     |-> pts[idx + 1],
      canDrag |-> canDrag(pts, idx),
      dragId  |-> IF dragging # None /\ isEqualPoint(dragging.start, pts[idx])
                  THEN dragging.dragId ELSE Undefined]]

\* useDraggable({id}): the drag id handed to onDragging is the id given at
\* render, or one of its own making
UseDraggableId(id, fresh) == IF id # Undefined THEN id ELSE <<fresh>>

\* SmartEdge.onDragging records the edge being dragged, at its new place
DraggingEdgeOf(ev) == [dragId |-> ev.dragId, start |-> ev.to.start, end |-> ev.to.end]

\* useDraggable's onDragging(dragId, position, delta) of the controller
\* rendered for the segment start-end: the event it hands to edge.onDragging
DragEvent(vp, start, end, dragId, position, delta) ==
  LET isHorizontal    == start.y = end.y
      oldFlowPosition == screenToFlowPosition(vp, [x |-> position.x - delta.x,
                                                   y |-> position.y - delta.y])
      newFlowPosition == screenToFlowPosition(vp, position)
      flowDelta == [x |-> newFlowPosition.x - oldFlowPosition.x,
                    y |-> newFlowPosition.y - oldFlowPosition.y]
      newStart == IF isHorizontal THEN [start EXCEPT !.y = @ + flowDelta.y]
                                  ELSE [start EXCEPT !.x = @ + flowDelta.x]
      newEnd   == IF isHorizontal THEN [end EXCEPT !.y = @ + flowDelta.y]
                                  ELSE [end EXCEPT !.x = @ + flowDelta.x]
  IN  [dragId |-> dragId,
       from   |-> [start |-> start, end |-> end],
       to     |-> [start |-> newStart, end |-> newEnd]]

\* the coordination layer applies the event: the segment takes its new place
\* and the two segments next to it stretch to meet it
ApplyDrag(pts, idx, ev) == [pts EXCEPT ![idx] = ev.to.start, ![idx + 1] = ev.to.end]

---------------------------------------------------------------------------
(* Running the optimizer: once on the router's points, then on its own output *)

\* how many points the router may put between the two offset points
MaxEdgePoints == 1

\* the coordinates the inputs are drawn from, in ticks: half a unit, and
\* whole units closer than, and farther than, the merge threshold
OptXs == {1, Unit(8)}
OptYs == {0, Unit(3), Unit(5)}

OptPoints == {Pt(0, x, y) : x \in OptXs, y \in OptYs}

SeqsUpTo(S, n) == UNION {[1..k -> S] : k \in 0..n}

\* uuid(): the router's points carry distinct ids; here, their place in the path
WithIds(pts, from) == [i \in 1..Len(pts) |-> [pts[i] EXCEPT !.id = from + i - 1]]

MakeParams(s, sp, so, e, to, t, tp) ==
  [source       |-> Handle(0, s.x, s.y, sp),
   target       |-> Handle(3 + Len(e), t.x, t.y, tp),
   sourceOffset |-> Pt(1, so.x, so.y),
   targetOffset |-> Pt(2 + Len(e), to.x, to.y),
   edgePoints   |-> WithIds(e, 2)]

NoRect == [x |-> 0, y |-> 0, width |-> 0, height |-> 0]
NoSeg == <<Pt(0, 0, 0), Pt(0, 0, 0)>>
NoViewport == [x |-> 0, y |-> 0, zoom |-> 1]

IdleOpt  == params = None /\ result = None /\ result2 = None
IdleList == points = <<>> /\ outPoints = <<>>
IdleRect == rect1 = NoRect /\ rect2 = NoRect /\ seg = NoSeg /\ answer = None
IdleDrag ==
  /\ path = <<>> /\ controllers = <<>> /\ draggingEdge = None
  /\ viewport = NoViewport /\ gesture = None /\ event = None /\ drags = 0

InitOptimize ==
  /\ pc = "input"
  /\ \E s \in OptPoints, so \in OptPoints, to \in OptPoints, t \in OptPoints,
        sp \in Positions, tp \in Positions, e \in SeqsUpTo(OptPoints, MaxEdgePoints) :
       params = MakeParams(s, sp, so, e, to, t, tp)
  /\ result = None /\ result2 = None
  /\ IdleList /\ IdleRect /\ IdleDrag

\* optimizeInputPoints(params)
Optimize ==
  /\ pc = "input" /\ params # None
  /\ result' = optimizeInputPoints(params)
  /\ pc' = "optimized"
  /\ UNCHANGED <<params, result2, listVars, rectVars, dragVars>>

\* the parameters that feed a result back into the optimizer
Feedback(r) ==
  [source |-> r.source, target |-> r.target, sourceOffset |-> r.sourceOffset,
   targetOffset |-> r.targetOffset, edgePoints |-> r.edgePoints]

\* optimizeInputPoints again, on its own output
Reoptimize ==
  /\ pc = "optimized" /\ result # None
  /\ result2' = optimizeInputPoints(Feedback(result))
  /\ pc' = "reoptimized"
  /\ UNCHANGED <<params, result, listVars, rectVars, dragVars>>

\* The inputs the router hands over: whole coordinates, each offset point
\* `HandleOffset` away from its handle on the handle's side, and every step of
\* the path horizontal or vertical.
RoutedXs == {0, Unit(10), Unit(20)}
RoutedYs == {0, Unit(10), Unit(12), Unit(22)}
HandleOffset == Unit(10)

RoutedPoints == {Pt(0, x, y) : x \in RoutedXs, y \in RoutedYs}

\* how many points the router may put between the two offset points
MaxRoutedPoints == 2

IsRoutedPath(pts) ==
  \A i \in 1..(Len(pts) - 1) : pts[i].x = pts[i + 1].x \/ pts[i].y = pts[i + 1].y

InitRouted ==
  /\ pc = "input"
  /\ \E s \in RoutedPoints, t \in RoutedPoints, sp \in Positions, tp \in Positions,
        e \in SeqsUpTo(RoutedPoints, MaxRoutedPoints) :
       LET so == getOffsetPoint(Handle(0, s.x, s.y, sp), HandleOffset)
           to == getOffsetPoint(Handle(0, t.x, t.y, tp), HandleOffset)
       IN  /\ so \in RoutedPoints /\ to \in RoutedPoints
           /\ IsRoutedPath(<<s, so>> \o e \o <<to, t>>)
           /\ params = MakeParams(s, sp, so, e, to, t, tp)
  /\ result = None /\ result2 = None
  /\ IdleList /\ IdleRect /\ IdleDrag

NextOptimize == Optimize \/ Reoptimize

SpecOptimize == InitOptimize /\ [][NextOptimize]_vars

SpecRouted == InitRouted /\ [][NextOptimize]_vars

---------------------------------------------------------------------------
(* Running the list functions, each on a list of its own *)

SeqsFromTo(S, m, n) == UNION {[1..k -> S] : k \in m..n}

InitList(lists) ==
  /\ pc = "input"
  /\ \E l \in lists : points = WithIds(l, 0)
  /\ outPoints = <<>>
  /\ IdleOpt /\ IdleRect /\ IdleDrag

\* reducePoints: lists of 2 to MaxReduceLen points on two vertical lines
MaxReduceLen == 5
ReduceXs == {0, Unit(1)}
ReduceYs == {0, Unit(1), Unit(2), Unit(3)}
ReduceInputs ==
  SeqsFromTo({Pt(0, x, y) : x \in ReduceXs, y \in ReduceYs}, 2, MaxReduceLen)

Reduce ==
  /\ pc = "input" /\ Len(points) >= 2
  /\ outPoints' = reducePoints(points)
  /\ pc' = "reduced"
  /\ UNCHANGED <<points, optVars, rectVars, dragVars>>

SpecReduce == InitList(ReduceInputs) /\ [][Reduce]_vars

\* removeRepeatPoints: lists of 1 to MaxRepeatLen points
MaxRepeatLen == 4
RepeatXs == {0, Unit(5)}
RepeatYs == {0, Unit(5)}
RepeatInputs ==
  SeqsFromTo({Pt(0, x, y) : x \in RepeatXs, y \in RepeatYs}, 1, MaxRepeatLen)

RemoveRepeat ==
  /\ pc = "input" /\ Len(points) >= 1
  /\ outPoints' = removeRepeatPoints(points)
  /\ pc' = "deduped"
  /\ UNCHANGED <<points, optVars, rectVars, dragVars>>

SpecRepeat == InitList(RepeatInputs) /\ [][RemoveRepeat]_vars

\* mergeClosePoints: lists of 1 to MaxMergeLen points with whole coordinates,
\* x from 0 to MaxMergeCoord units
MaxMergeLen == 3
MaxMergeCoord == 7
MergeXs == {Unit(k) : k \in 0..MaxMergeCoord}
MergeYs == {0, Unit(2), Unit(5)}
MergeInputs ==
  SeqsFromTo({Pt(0, x, y) : x \in MergeXs, y \in MergeYs}, 1, MaxMergeLen)

MergeClose ==
  /\ pc = "input"
  /\ outPoints' = mergeClosePoints(points)
  /\ pc' = "merged"
  /\ UNCHANGED <<points, optVars, rectVars, dragVars>>

SpecMerge == InitList(MergeInputs) /\ [][MergeClose]_vars

---------------------------------------------------------------------------
(* Running the rectangle tests *)

\* rectangles with corner and extents from 0 to MaxRect units
MaxRect == 3
RectValues == {Unit(k) : k \in 0..MaxRect}
Rects == {Rect(x, y, w, h) : x \in RectValues, y \in RectValues,
                             w \in RectValues, h \in RectValues}

InitOverlap ==
  /\ pc = "input"
  /\ rect1 \in Rects /\ rect2 \in Rects
  /\ seg = NoSeg /\ answer = None
  /\ IdleOpt /\ IdleList /\ IdleDrag

Overlap ==
  /\ pc = "input"
  /\ answer' = isRectOverLapping(rect1, rect2)
  /\ pc' = "overlap"
  /\ UNCHANGED <<rect1, rect2, seg, optVars, listVars, dragVars>>

SpecOverlap == InitOverlap /\ [][Overlap]_vars

\* segments between points with coordinates from 0 to MaxSegCoord units
MaxSegCoord == 3
SegValues == {Unit(k) : k \in 0..MaxSegCoord}
SegPoints == {Pt(0, x, y) : x \in SegValues, y \in SegValues}

InitCrossing ==
  /\ pc = "input"
  /\ rect1 \in Rects /\ rect2 = NoRect
  /\ seg \in SegPoints \X SegPoints
  /\ answer = None
  /\ IdleOpt /\ IdleList /\ IdleDrag

Crossing ==
  /\ pc = "input"
  /\ answer' = isSegmentCrossingRect(seg[1], seg[2], rect1)
  /\ pc' = "crossing"
  /\ UNCHANGED <<rect1, rect2, seg, optVars, listVars, dragVars>>

SpecCrossing == InitCrossing /\ [][Crossing]_vars

---------------------------------------------------------------------------
(* Dragging the segments of a rendered edge *)

\* how many drag moves a behaviour takes
MaxDrags == 2
\* the largest zoom of the viewport
MaxZoom == 2

DragValues == {0, Unit(2)}
DragPoints == {Pt(0, x, y) : x \in DragValues, y \in DragValues}

\* the optimized paths: 4 or 5 points, the segments in turn horizontal and vertical
IsAlternating(pts) ==
  /\ \A i \in 1..(Len(pts) - 1) :
       (pts[i].x = pts[i + 1].x) # (pts[i].y = pts[i + 1].y)
  /\ \A i \in 1..(Len(pts) - 2) :
       (pts[i].x = pts[i + 1].x) # (pts[i + 1].x = pts[i + 2].x)

DragPaths == {l \in SeqsFromTo(DragPoints, 4, 5) : IsAlternating(l)}

RECURSIVE Factorial(_)
Factorial(n) == IF n <= 1 THEN 1 ELSE n * Factorial(n - 1)

\* pan and zoom; pans, screen positions and displacements are whole multiples
\* of ScreenStep ticks, so that the division by any zoom is exact
ScreenStep == Factorial(MaxZoom)
Viewports == {[x |-> px, y |-> py, zoom |-> z] :
                px \in {0, ScreenStep}, py \in {0}, z \in 1..MaxZoom}
ScreenPositions == {[x |-> ScreenStep * a, y |-> ScreenStep * b] : a \in {0, 3}, b \in {1}}
ScreenDeltas ==
  {[x |-> ScreenStep * a, y |-> ScreenStep * b] : a \in {-1, 0, 1}, b \in {-1, 0, 1}}

InitDrag ==
  /\ pc = "rendered"
  /\ \E l \in DragPaths : path = WithIds(l, 0)
  /\ controllers = EdgeControllers(path, None)
  /\ draggingEdge = None
  /\ viewport \in Viewports
  /\ gesture = None /\ event = None /\ drags = 0
  /\ IdleOpt /\ IdleList /\ IdleRect

\* EdgeControllers and each EdgeController render again, for the points and
\* the dragged edge as they are now: the closures of the handlers are rebuilt
Render ==
  /\ pc = "rendered"
  /\ controllers # EdgeControllers(path, draggingEdge)
  /\ controllers' = EdgeControllers(path, draggingEdge)
  /\ UNCHANGED <<pc, path, draggingEdge, viewport, gesture, event, drags,
                 optVars, listVars, rectVars>>

\* one pointer move on the handle of segment idx: the handler registered at
\* the last render runs, with the start, end and drag id of that render, hands
\* its event to edge.onDragging, which moves the segment and records the
\* dragged edge, and returns; it renders nothing, so the controllers hold
\* what they held until the next render
DragMove ==
  /\ pc = "rendered" /\ drags < MaxDrags
  /\ \E idx \in 1..Len(controllers), position \in ScreenPositions, delta \in ScreenDeltas :
       /\ controllers[idx].canDrag
       /\ LET c  == controllers[idx]
              ev == DragEvent(viewport, c.start, c.end,
                              UseDraggableId(c.dragId, drags + 1), position, delta)
          IN  /\ event' = ev
              /\ path' = ApplyDrag(path, idx, ev)
              /\ draggingEdge' = DraggingEdgeOf(ev)
       /\ gesture' = [idx |-> idx, position |-> position, delta |-> delta]
  /\ drags' = drags + 1
  /\ UNCHANGED <<pc, controllers, viewport, optVars, listVars, rectVars>>

\* the pointer is released: no edge is being dragged
DragEnd ==
  /\ pc = "rendered" /\ draggingEdge # None
  /\ draggingEdge' = None
  /\ UNCHANGED <<pc, path, controllers, viewport, gesture, event, drags,
                 optVars, listVars, rectVars>>

NextDrag == Render \/ DragMove \/ DragEnd

SpecDrag == InitDrag /\ [][NextDrag]_vars

---------------------------------------------------------------------------
(* Properties of optimizeInputPoints *)

\* every pair of consecutive points shares x or shares y
IsOrthogonal(pts) ==
  \A i \in 1..(Len(pts) - 1) : pts[i].x = pts[i + 1].x \/ pts[i].y = pts[i + 1].y

InputPath(p) ==
  <<p.source, p.sourceOffset>> \o p.edgePoints \o <<p.targetOffset, p.target>>

OutputPath(r) == <<r.source>> \o r.edgePoints \o <<r.target>>

\* the coordinate of p on the axis its anchor's side selects
SideCoord(p, position) == IF isHorizontalFromPosition(position) THEN p.x ELSE p.y

IsWhole(v) == v % Scale = 0

Optimized == pc \in {"optimized", "reoptimized"}

\* C1: an orthogonal input path [source, sourceOffset, ...edgePoints,
\* targetOffset, target] gives an orthogonal output path [source,
\* ...edgePoints, target].
C1_OrthogonalityPreserved ==
  (Optimized /\ IsOrthogonal(InputPath(params))) => IsOrthogonal(OutputPath(result))

\* C2: the returned source has the input source anchor's coordinate on the axis
\* its side selects (x for left/right, y for top/bottom), and the returned
\* target the input target anchor's, whatever merging snapped them to.
C2_EndpointFidelity ==
  Optimized =>
    /\ SideCoord(result.source, params.source.position)
         = SideCoord(params.source, params.source.position)
    /\ SideCoord(result.target, params.target.position)
         = SideCoord(params.target, params.target.position)

\* C2's case: merging moved both anchors on their side's axis (the source by
\* flooring, the target by snapping to an earlier coordinate), and the optimizer
\* has returned.
C2_Witness ==
  /\ pc = "optimized"
  /\ LET all == mergeClosePoints(InputPath(params))
     IN  /\ SideCoord(all[1], params.source.position)
              # SideCoord(params.source, params.source.position)
         /\ SideCoord(all[Len(all)], params.target.position)
              # SideCoord(params.target, params.target.position)
         /\ ~isHorizontalFromPosition(params.target.position)

\* C3: with integer anchor coordinates, the returned source and target equal
\* the input anchors in both x and y.
C3_AnchorsNeverMove ==
  (Optimized /\ IsWhole(params.source.x) /\ IsWhole(params.source.y)
             /\ IsWhole(params.target.x) /\ IsWhole(params.target.y))
    => (XY(result.source) = XY(params.source) /\ XY(result.target) = XY(params.target))

SameCoordinates(r1, r2) ==
  /\ XY(r1.source) = XY(r2.source)
  /\ XY(r1.target) = XY(r2.target)
  /\ XY(r1.sourceOffset) = XY(r2.sourceOffset)
  /\ XY(r1.targetOffset) = XY(r2.targetOffset)
  /\ Coords(r1.edgePoints) = Coords(r2.edgePoints)

\* C4: optimizing the optimizer's own output returns the same source, target,
\* sourceOffset, targetOffset and edgePoints coordinates.
C4_Idempotent == pc = "reoptimized" => SameCoordinates(result2, result)

\* C4's case: the first run merged coordinates and removed a duplicate, and
\* the second run has returned.
C4_Witness ==
  /\ pc = "reoptimized"
  /\ Len(result.edgePoints) < Len(params.edgePoints) + 2
  /\ XY(result.targetOffset) # XY(params.targetOffset)
  /\ \E i \in 1..Len(result.edgePoints) :
       result.edgePoints[i].y # result.source.y

---------------------------------------------------------------------------
(* Properties of the list functions *)

\* C5: the list reducePoints returns has no three consecutive points a, b, c
\* with b on the axis-aligned segment a-c.
C5_NoCollinearInterior ==
  pc = "reduced" =>
    \A i \in 1..(Len(outPoints) - 2) :
      ~isInLine(outPoints[i + 1], outPoints[i], outPoints[i + 2])

\* C9: the output of removeRepeatPoints starts with the input's first point
\* and ends with its last, and no two output points other than these two have
\* equal (x, y).
C9_KeepsBothEnds ==
  pc = "deduped" =>
    /\ XY(outPoints[1]) = XY(points[1])
    /\ XY(outPoints[Len(outPoints)]) = XY(points[Len(points)])
    /\ \A i, j \in 2..(Len(outPoints) - 1) :
         i < j => XY(outPoints[i]) # XY(outPoints[j])

Axis(p, axis) == IF axis = "x" THEN p.x ELSE p.y

\* C6: on each axis, two input points closer than the threshold get the same
\* output coordinate, and two farther apart than the threshold get different
\* output coordinates.
C6_ThresholdMonotone ==
  pc = "merged" =>
    \A axis \in {"x", "y"} : \A i, j \in 1..Len(points) :
      /\ Abs(Axis(points[i], axis) - Axis(points[j], axis)) < threshold * Scale
           => Axis(outPoints[i], axis) = Axis(outPoints[j], axis)
      /\ Abs(Axis(points[i], axis) - Axis(points[j], axis)) > threshold * Scale
           => Axis(outPoints[i], axis) # Axis(outPoints[j], axis)

\* C6 as the code has it (first seen wins): on each axis, every point gets the
\* coordinate of the first point of the list that is closer than the threshold
\* to it and kept its own coordinate, so (1) a point closer than the threshold
\* to the first point of the list gets the first point's coordinate, equal
\* coordinates get equal outputs and no coordinate moves by the threshold or
\* more, and (2) two points 2 * threshold - 1 or more apart get different
\* outputs, and two different outputs are at least the threshold apart.
C6_FirstSeenWins ==
  pc = "merged" =>
    \A axis \in {"x", "y"} : \A i \in 1..Len(points) :
      LET in(k)  == Axis(points[k], axis)
          out(k) == Axis(outPoints[k], axis)
          kept   == {k \in 1..i : out(k) = in(k)
                                   /\ Abs(in(i) - in(k)) < threshold * Scale}
      IN  /\ kept # {} /\ out(i) = in(SetMin(kept))
          /\ Abs(in(i) - in(1)) < threshold * Scale => out(i) = out(1)
          /\ Abs(out(i) - in(i)) < threshold * Scale
          /\ \A j \in 1..Len(points) :
               /\ in(i) = in(j) => out(i) = out(j)
               /\ Abs(in(i) - in(j)) >= (2 * threshold - 1) * Scale => out(i) # out(j)
               /\ out(i) # out(j) => Abs(out(i) - out(j)) >= threshold * Scale

\* C6's case: a list where two x closer than the threshold were kept apart and
\* two y farther apart than the threshold were merged.
C6_Witness ==
  /\ pc = "merged"
  /\ \E i, j \in 1..Len(points) :
       /\ Abs(points[i].x - points[j].x) < threshold * Scale
       /\ outPoints[i].x # outPoints[j].x
  /\ \E i, j \in 1..Len(points) :
       /\ Abs(points[i].y - points[j].y) > threshold * Scale
       /\ outPoints[i].y = outPoints[j].y

---------------------------------------------------------------------------
(* Properties of the rectangle tests *)

\* C8: isSegmentCrossingRect is false for every segment when the box has
\* zero area (width = 0 or height = 0).
C8_DegenerateNeverCrossed ==
  (pc = "crossing" /\ (rect1.width = 0 \/ rect1.height = 0)) => answer = FALSE

\* the centers are closer than half the summed extents on both axes (doubled)
CentersCloser(r1, r2) ==
  /\ Abs((2 * r1.x + r1.width) - (2 * r2.x + r2.width)) < r1.width + r2.width
  /\ Abs((2 * r1.y + r1.height) - (2 * r2.y + r2.height)) < r1.height + r2.height

InteriorsIntersect(r1, r2) ==
  /\ r1.x < r2.x + r2.width /\ r2.x < r1.x + r1.width
  /\ r1.y < r2.y + r2.height /\ r2.y < r1.y + r1.height

\* C10: for rects of positive width and height, isRectOverLapping is true
\* exactly when the centers are closer than half the summed widths on x and
\* half the summed heights on y, that is when the interiors intersect.
C10_OverlapIsAABB ==
  (pc = "overlap" /\ rect1.width > 0 /\ rect1.height > 0
                  /\ rect2.width > 0 /\ rect2.height > 0)
    => /\ answer = CentersCloser(rect1, rect2)
       /\ answer = InteriorsIntersect(rect1, rect2)

---------------------------------------------------------------------------
(* Properties of the drag handler *)

FlowDelta(vp, g) ==
  LET old == screenToFlowPosition(vp, [x |-> g.position.x - g.delta.x,
                                       y |-> g.position.y - g.delta.y])
      new == screenToFlowPosition(vp, g.position)
  IN  [x |-> new.x - old.x, y |-> new.y - old.y]

Shifted(p, dx, dy) == [p EXCEPT !.x = @ + dx, !.y = @ + dy]

=============================================================================
